---------------------------- MODULE Spec2Model ----------------------------
(***************************************************************************)
(* A model of the CosmosDB usage-field migration scripts:                  *)
(*   old.py           dry-run / execute / revert migrator with fallback    *)
(*                    pagination, batched mutation and a spot check        *)
(*   update_usage.py  simplified forward script                            *)
(*   delete_usage.py  simplified usage-removal script                      *)
(*                                                                         *)
(* A document (a Python dict) is a function from field names to values:    *)
(* 'k' in doc  is  k \in DOMAIN doc,  del doc[k]  removes k from the       *)
(* domain.  The store maps a document id to the stored document; an upsert *)
(* overwrites by id.  String and integer provenance markers of the code    *)
(* ("121", -1) are both written as strings so that they can be compared.   *)
(***************************************************************************)
EXTENDS Integers, Sequences, FiniteSets, TLC

VARIABLES
    store,                \* container contents: id -> document
    run,                  \* number of script invocations started so far
    pc,                   \* control location of the current invocation
    script,               \* which script runs: "old", "update_usage", "delete_usage"
    revert_mode,          \* old.py main: '--revert' in sys.argv
    dry_run,              \* old.py main: no '--execute' / '--run' / '--apply'
    cosmos_client,        \* "None", "open" or "closed"
    all_msg_documents,    \* documents as read by discovery
    page_size,            \* query_documents_with_count_pagination locals
    offset,
    all_documents,
    documents_to_update,  \* the in-memory documents selected for mutation
    batch_size,           \* process_in_batches parameters and locals
    concurrency,
    batch_start,
    task,                 \* per document of documents_to_update: its task's state
    semaphore,
    updated_count,
    error_count,
    spot_check_before,    \* run_update: id -> sampled fields captured before mutation
    spot_check_passed,    \* run_update: "None" until verified, then "True" / "False"
    reread_failed,        \* a re-read of the spot check raised (history)
    exit_code,            \* exit code of the last finished invocation, -1 while none
    client_obj,           \* the constructed CosmosClient object: "None", "open", "closed"
    faults,               \* transport-limit failures injected so far in this invocation
    skipped_offsets,      \* offsets whose range the pagination skipped (history)
    discovery_error,      \* where a non-transport query error was raised in this
                          \* invocation: "none", "bulk" or "page" (history)
    invocation,           \* the flags and the answer given to this invocation, and
                          \* the store when it started (history)
    writes,               \* upsert attempts of this invocation, in order of completion:
                          \* [i, id, read, before, doc, ok] (history)
    runs                  \* summary of each finished invocation (history)

vars == <<store, run, pc, script, revert_mode, dry_run, cosmos_client,
          all_msg_documents, page_size, offset, all_documents,
          documents_to_update, batch_size, concurrency, batch_start, task,
          semaphore, updated_count, error_count, spot_check_before,
          spot_check_passed, reread_failed, exit_code, client_obj, faults,
          skipped_offsets, discovery_error, invocation, writes, runs>>

-----------------------------------------------------------------------------
(* Bounds of the model *)

\* documents in the small store of the whole-run specification
MaxDocs == 2
\* documents of the store in the pagination specification
MaxStore == 560
\* documents, batch size and concurrency in the batching specification
MaxBatchDocs == 5
MaxBatchSize == 3
MaxConcurrency == 2
\* transport-limit ("Header value is too long") failures injected per invocation
MaxFaults == 6
\* per-document write failures injected per invocation
MaxWriteFaults == 1
\* offsets of the fallback pagination are told apart up to this one
MaxOffset == 800
\* documents of the store when the transport-limit failure recurs without end
MaxOutageStore == 120
\* documents of the store in the verification specification
MaxVerifyDocs == 9

-----------------------------------------------------------------------------
(* Program constants *)

UPDATED_BY == "121"
\* doc['updatedBy'] = -1, the revert sentinel (an int in the code)
REVERTED == "-1"
InitialPageSize == 1000
MinPageSize == 100
DefaultBatchSize == 50
DefaultConcurrency == 10
UpdateMaxRecords == 100
DeleteMaxRecords == 1000

NullUsage ==
    [completion_tokens |-> "None", prompt_tokens |-> "None", total_tokens |-> "None"]

NativeUsage ==
    [completion_tokens |-> "7", prompt_tokens |-> "5", total_tokens |-> "12"]

-----------------------------------------------------------------------------
(* Documents (Python dicts) *)

Has(doc, k) == k \in DOMAIN doc

\* doc.get(k)
Get(doc, k) == IF k \in DOMAIN doc THEN doc[k] ELSE "None"

\* doc[k] = v
SetField(doc, k, v) ==
    [f \in DOMAIN doc \cup {k} |-> IF f = k THEN v ELSE doc[f]]

\* del doc[k]
DelField(doc, k) == [f \in DOMAIN doc \ {k} |-> doc[f]]

\* _utc_now(): the time of the current invocation
utc_now == run


-----------------------------------------------------------------------------
(* Queries against the container *)

Min(a, b) == IF a < b THEN a ELSE b
Max(a, b) == IF a > b THEN a ELSE b

\* the stored documents in id order
Ordered(s) == [i \in 1..Cardinality(DOMAIN s) |-> s[i]]

\* the first n elements of a sequence
Take(seq, n) == SubSeq(seq, 1, Min(n, Len(seq)))

IsAssistantMessage(doc) ==
    Get(doc, "type") = "message" /\ Get(doc, "role") = "assistant"

\* SELECT * FROM c WHERE c.type = 'message' and c.role = 'assistant' [ORDER BY c.id]
QueryMessages(s) == SelectSeq(Ordered(s), IsAssistantMessage)

\* ... ORDER BY c.id OFFSET off LIMIT lim
QueryPage(s, off, lim) ==
    LET all == QueryMessages(s)
    IN  SubSeq(all, off + 1, Min(off + lim, Len(all)))

MissingUsage(doc) == IsAssistantMessage(doc) /\ ~Has(doc, "usage")

\* update_usage.py: ... AND NOT IS_DEFINED(c.usage), at most MAX_RECORDS
QueryMissingUsage(s) == Take(SelectSeq(Ordered(s), MissingUsage), UpdateMaxRecords)

HasUsage(doc) == Has(doc, "usage")

\* delete_usage.py: SELECT * FROM c WHERE IS_DEFINED(c.usage), at most MAX_RECORDS
QueryHasUsage(s) == Take(SelectSeq(Ordered(s), HasUsage), DeleteMaxRecords)

\* container.upsert_item(doc): overwrite by id
Upsert(s, doc) == [s EXCEPT ![doc["id"]] = doc]

-----------------------------------------------------------------------------
(* Decision and patch functions *)

\* mutant: a usage field holding only nulls is taken for a missing one
NeedsUpdateNullAsMissing(doc, revert) ==
    IF revert
    THEN Has(doc, "usage") /\ Get(doc, "updatedBy") = UPDATED_BY
    ELSE ~Has(doc, "usage") \/ doc["usage"] = NullUsage

\* mutant: the reverse filter takes every document that has a usage field
NeedsUpdateAnyWriter(doc, revert) ==
    IF revert THEN Has(doc, "usage") ELSE ~Has(doc, "usage")

\* run_update FILTER LOGIC for one document
NeedsUpdate(doc, revert) ==
    IF revert
    THEN Has(doc, "usage") /\ Get(doc, "updatedBy") = UPDATED_BY
    ELSE ~Has(doc, "usage")

FilterDocuments(docs, revert) ==
    LET Keep(doc) == NeedsUpdate(doc, revert)
    IN  SelectSeq(docs, Keep)

\* skipped_count = len(all_msg_documents) - len(documents_to_update)
SkippedCount(docs, selected) == Len(docs) - Len(selected)

\* mutant: the document written is rebuilt from its id and the new fields
ForwardPatchRebuilt(doc, now) ==
    [id |-> doc["id"], usage |-> NullUsage, updatedAt |-> now, updatedBy |-> UPDATED_BY]

\* mutant: the provenance is stamped but the usage field is not added
ForwardPatchStampOnly(doc, now) ==
    SetField(SetField(doc, "updatedAt", now), "updatedBy", UPDATED_BY)

\* update_single_document, forward branch (also update_usage.py's loop body)
ForwardPatch(doc, now) ==
    SetField(SetField(SetField(doc, "usage", NullUsage), "updatedAt", now),
             "updatedBy", UPDATED_BY)

\* mutant: the provenance is stamped before the attribution test
ReversePatchStampFirst(doc, now) ==
    LET d == SetField(SetField(doc, "updatedAt", now), "updatedBy", REVERTED)
    IN  IF Has(d, "usage") /\ Get(d, "updatedBy") = UPDATED_BY
        THEN DelField(d, "usage")
        ELSE d

\* update_single_document, revert branch
ReversePatch(doc, now) ==
    LET d == IF Has(doc, "usage") /\ Get(doc, "updatedBy") = UPDATED_BY
             THEN DelField(doc, "usage")
             ELSE doc
    IN  SetField(SetField(d, "updatedAt", now), "updatedBy", REVERTED)

\* delete_usage.py's loop body
DeletePatch(doc) == IF Has(doc, "usage") THEN DelField(doc, "usage") ELSE doc

PatchOf(doc, revert, now) ==
    IF revert THEN ReversePatch(doc, now) ELSE ForwardPatch(doc, now)

\* mutant: the partial results survive the restart
RestartedKeepingPartial(docs) == docs

\* all_documents = []  # Clear any partial results
Restarted(docs) == <<>>

\* page_size = max(100, page_size // 2)
Shrink(size) == Max(MinPageSize, size \div 2)

\* mutant: the skip advances by two pages
SkipTwoRanges(off, size) == off + 2 * size

\* offset += page_size  # Move to next offset range
SkipRange(off, size) == off + size

\* mutant: the slice is one document short
BatchEndShort(start, size, n) == Min(start + size - 1, n)

\* process_in_batches: batch = documents[i:i + batch_size]
BatchEnd(start, size, n) == Min(start + size, n)

\* range(0, len(documents), batch_size)
BatchStarts(n, size) == {i \in 0..(n - 1) : i % size = 0}


-----------------------------------------------------------------------------
(* Initial documents *)

\* the opaque payload of document i
ContentOf(i) == <<"hello", "bonjour", "hola">>[(i % 3) + 1]

Base(i, type, role) ==
    [id |-> i, type |-> type, role |-> role, content |-> ContentOf(i)]

\* an assistant message never migrated
FreshDoc(i) == Base(i, "message", "assistant")

\* an assistant message whose usage was written by the chat service itself
NativeDoc(i) ==
    SetField(SetField(SetField(FreshDoc(i), "usage", NativeUsage), "updatedAt", 0),
             "updatedBy", "chat-service")

\* an assistant message migrated by an earlier forward run
MigratedDoc(i) == ForwardPatch(FreshDoc(i), 0)

\* an assistant message reverted by an earlier reverse run
RevertedDoc(i) == ReversePatch(MigratedDoc(i), 0)

\* a user message carrying a usage field
UserDoc(i) ==
    SetField(SetField(Base(i, "message", "user"), "usage", NativeUsage),
             "updatedBy", "chat-service")

DocKinds(i) == {FreshDoc(i), NativeDoc(i), MigratedDoc(i), RevertedDoc(i), UserDoc(i)}

SmallStores ==
    {s \in [1..MaxDocs -> UNION {DocKinds(i) : i \in 1..MaxDocs}] :
        \A i \in 1..MaxDocs : s[i] \in DocKinds(i)}

NoTasks == <<>>

InitLocals ==
    /\ all_msg_documents = <<>>
    /\ page_size = InitialPageSize
    /\ offset = 0
    /\ all_documents = <<>>
    /\ documents_to_update = <<>>
    /\ batch_start = 0
    /\ task = NoTasks
    /\ semaphore = 0
    /\ updated_count = 0
    /\ error_count = 0
    /\ spot_check_before = <<>>
    /\ spot_check_passed = "None"
    /\ reread_failed = FALSE
    /\ faults = 0
    /\ skipped_offsets = {}
    /\ discovery_error = "none"
    /\ invocation = [execute |-> FALSE, response |-> "", before |-> store]
    /\ writes = <<>>
    /\ runs = <<>>

Init ==
    /\ store \in SmallStores
    /\ batch_size = DefaultBatchSize
    /\ concurrency = DefaultConcurrency
    /\ run = 0
    /\ pc = "idle"
    /\ script = "None"
    /\ revert_mode = FALSE
    /\ dry_run = TRUE
    /\ cosmos_client = "None"
    /\ client_obj = "None"
    /\ exit_code = -1
    /\ InitLocals

-----------------------------------------------------------------------------
(* Process entry and exit *)

params == <<batch_size, concurrency>>

discovery == <<all_msg_documents, page_size, offset, all_documents, faults,
               skipped_offsets, discovery_error>>

started == <<run, script, revert_mode, dry_run, invocation>>

mutation == <<documents_to_update, batch_start, task, semaphore, updated_count,
              error_count, spot_check_before, spot_check_passed, reread_failed, writes>>

\* the locals of a fresh invocation
Fresh(name, revert, execute, response) ==
    /\ run' = run + 1
    /\ script' = name
    /\ revert_mode' = revert
    /\ invocation' = [execute |-> execute, response |-> response, before |-> store]
    /\ all_msg_documents' = <<>>
    /\ page_size' = InitialPageSize
    /\ offset' = 0
    /\ all_documents' = <<>>
    /\ documents_to_update' = <<>>
    /\ batch_start' = 0
    /\ task' = NoTasks
    /\ semaphore' = 0
    /\ updated_count' = 0
    /\ error_count' = 0
    /\ spot_check_before' = <<>>
    /\ spot_check_passed' = "None"
    /\ reread_failed' = FALSE
    /\ faults' = 0
    /\ skipped_offsets' = {}
    /\ discovery_error' = "none"
    /\ writes' = <<>>
    /\ UNCHANGED <<store, params>>

\* what is recorded of a finished invocation; phase names the place it ended
Summary(name, revert, dry, inv, code, phase, closed, selected) ==
    [script |-> name, revert |-> revert, dry_run |-> dry, execute |-> inv.execute,
     response |-> inv.response, before |-> inv.before, exit_code |-> code,
     phase |-> phase, client |-> closed, selected |-> selected,
     skipped |-> skipped_offsets # {}, discovery_error |-> discovery_error,
     writes |-> {writes[k] : k \in 1..Len(writes)},
     spot_check |-> spot_check_passed, reread_failed |-> reread_failed,
     after |-> store]

\* an invocation of old.py that ended before it constructed a client
EarlySummary(revert, dry, execute, response, code, phase) ==
    [script |-> "old", revert |-> revert, dry_run |-> dry, execute |-> execute,
     response |-> response, before |-> store, exit_code |-> code,
     phase |-> phase, client |-> "None", selected |-> -1,
     skipped |-> FALSE, discovery_error |-> "none", writes |-> {},
     spot_check |-> "None", reread_failed |-> FALSE, after |-> store]

\* the invocation ends with exit code `code`; the finally clause closes the
\* client when the script's client variable is set
Exit(code, phase, selected) ==
    /\ pc' = "idle"
    /\ exit_code' = code
    /\ cosmos_client' = IF cosmos_client = "open" THEN "closed" ELSE cosmos_client
    /\ client_obj' = IF cosmos_client = "open" THEN "closed" ELSE client_obj
    /\ runs' = Append(runs,
                 Summary(script, revert_mode, dry_run, invocation, code, phase,
                         client_obj', selected))

\* dry_run = True unless '--execute', '--run' or '--apply' is given
DryRun(execute) == ~execute

\* mutant: only an explicit 'n' cancels
CancelledOnlyOnNo(execute, response) == execute /\ response = "n"

\* response.lower() != 'y': "Operation cancelled"
Cancelled(execute, response) == execute /\ response # "y"

\* old.py main(), up to the try block: argument handling and confirmation
\* (execute stands for any of the flags --execute, --run, --apply)
main(help, env_ok, revert, execute, response) ==
    /\ pc = "idle"
    /\ Fresh("old", revert /\ ~help /\ env_ok, execute, response)
    /\ cosmos_client' = "None"
    /\ client_obj' = "None"
    /\ IF help
       THEN /\ pc' = "idle"
            /\ exit_code' = 0
            /\ dry_run' = TRUE
            /\ runs' = Append(runs, EarlySummary(FALSE, TRUE, execute, response,
                                                  0, "help"))
       ELSE IF ~env_ok
       THEN /\ pc' = "idle"
            /\ exit_code' = 1
            /\ dry_run' = TRUE
            /\ runs' = Append(runs, EarlySummary(FALSE, TRUE, execute, response,
                                                  1, "environment"))
       ELSE IF Cancelled(execute, response)
       THEN /\ pc' = "idle"
            /\ exit_code' = 0
            /\ dry_run' = DryRun(execute)
            /\ runs' = Append(runs, EarlySummary(revert, DryRun(execute), execute,
                                                  response, 0, "cancelled"))
       ELSE /\ pc' = "connect"
            /\ exit_code' = -1
            /\ dry_run' = DryRun(execute)
            /\ UNCHANGED runs

\* old.py create_cosmos_client(): construct the client and validate the connection
create_cosmos_client(ok) ==
    /\ pc = "connect"
    /\ IF ok
       THEN /\ cosmos_client' = "open"
            /\ client_obj' = "open"
            /\ pc' = "bulk_query"
            /\ UNCHANGED <<exit_code, runs>>
       ELSE \* database.read() / container.read() raised: ValueError reaches
            \* main's except clause while main's cosmos_client is still None
            /\ pc' = "idle"
            /\ exit_code' = 1
            /\ cosmos_client' = "None"
            /\ client_obj' = "open"
            /\ runs' = Append(runs,
                         Summary(script, revert_mode, dry_run, invocation, 1,
                                 "connect", "open", -1))
    /\ UNCHANGED <<store, started, params, discovery, mutation>>

-----------------------------------------------------------------------------
(* Discovery *)

\* run_update: the initial bulk query and its except clause
\* outcome: "ok", "header" (Header value is too long / LineTooLong) or "other"
BulkQuery(outcome) ==
    /\ pc = "bulk_query"
    /\ CASE outcome = "ok" ->
              /\ all_msg_documents' = QueryMessages(store)
              /\ pc' = "filter"
              /\ UNCHANGED <<page_size, offset, all_documents, faults, exit_code,
                             cosmos_client, client_obj, runs, discovery_error>>
         [] outcome = "header" ->
              /\ faults < MaxFaults
              /\ faults' = faults + 1
              /\ page_size' = InitialPageSize
              /\ offset' = 0
              /\ all_documents' = <<>>
              /\ pc' = "paginate"
              /\ UNCHANGED <<all_msg_documents, exit_code, cosmos_client,
                             client_obj, runs, discovery_error>>
         [] outcome = "other" ->
              \* raise e: the error leaves run_update
              /\ discovery_error' = "bulk"
              /\ pc' = "fatal"
              /\ UNCHANGED <<all_msg_documents, page_size, offset, all_documents,
                             faults, exit_code, cosmos_client, client_obj, runs>>
    /\ UNCHANGED <<store, started, params, skipped_offsets, mutation>>

\* the except clause of the loop body on "Header value is too long": halve the
\* page size and restart, or at the floor skip the offset range
HeaderTooLong ==
    IF page_size > MinPageSize
    THEN /\ page_size' = Shrink(page_size)
         /\ offset' = 0
         /\ all_documents' = Restarted(all_documents)
         /\ UNCHANGED skipped_offsets
    ELSE /\ offset' = SkipRange(offset, page_size)
         /\ skipped_offsets' = skipped_offsets \cup {offset}
         /\ UNCHANGED <<page_size, all_documents>>

\* query_documents_with_count_pagination: one iteration of the while loop
PageFetch(outcome) ==
    /\ pc = "paginate"
    /\ CASE outcome = "ok" ->
              LET page_docs == QueryPage(store, offset, page_size)
              IN  /\ all_documents' = all_documents \o page_docs
                  /\ offset' = offset + Len(page_docs)
                  /\ pc' = IF page_docs = <<>> \/ Len(page_docs) < page_size
                           THEN "paginated"
                           ELSE "paginate"
                  /\ UNCHANGED <<page_size, faults, skipped_offsets, discovery_error>>
         [] outcome = "header" ->
              /\ faults < MaxFaults
              /\ faults' = faults + 1
              /\ HeaderTooLong
              /\ pc' = "paginate"
              /\ UNCHANGED discovery_error
         [] outcome = "other" ->
              \* raise e is caught by the outer except clause: return []
              /\ all_documents' = <<>>
              /\ discovery_error' = "page"
              /\ pc' = "paginated"
              /\ UNCHANGED <<page_size, offset, faults, skipped_offsets>>
    /\ UNCHANGED <<store, started, cosmos_client,
                   client_obj, all_msg_documents, params, mutation, exit_code, runs>>

\* every offset at or past the end of the results behaves alike (a fetch there
\* fails or returns the empty page), so the offsets past MaxOffset, which lie past
\* the end of the results, are folded back by two pages
Folded(off) == IF off > MaxOffset THEN off - 2 * MinPageSize ELSE off

\* one iteration of the while loop when the store answers the request with
\* "Header value is too long", without a limit on how often it does
PageFetchFailing ==
    /\ pc = "paginate"
    /\ MaxOffset - 2 * MinPageSize >= Len(QueryMessages(store))
    /\ IF page_size > MinPageSize
       THEN HeaderTooLong
       ELSE /\ offset' = Folded(SkipRange(offset, page_size))
            /\ skipped_offsets' = skipped_offsets \cup {offset}
            /\ UNCHANGED <<page_size, all_documents>>
    /\ pc' = "paginate"
    /\ UNCHANGED <<store, started, cosmos_client, client_obj, all_msg_documents,
                   faults, discovery_error, params, mutation, exit_code, runs>>

\* run_update: back from the fallback pagination
PaginationReturned ==
    /\ pc = "paginated"
    /\ all_msg_documents' = all_documents
    /\ IF all_documents = <<>>
       THEN \* "pagination also failed": run_update returns, main returns 0
            Exit(0, "discovery_empty", -1)
       ELSE /\ pc' = "filter"
            /\ UNCHANGED <<exit_code, cosmos_client, client_obj, runs>>
    /\ UNCHANGED <<store, started, page_size, offset,
                   all_documents, faults, skipped_offsets, discovery_error, params,
                   mutation>>


\* main's except clause: "Fatal error", return 1
FatalError ==
    /\ pc = "fatal"
    /\ Exit(1, "discovery_failed", -1)
    /\ UNCHANGED <<store, started, params, discovery, mutation>>

-----------------------------------------------------------------------------
(* Decision *)

\* the fields the spot check compares
SpotFields == {"id", "type", "userId", "conversationId", "role", "content",
               "feedback", "createdAt"}

\* spot_check_before[doc['id']]
Snapshot(doc) ==
    [fields |-> [f \in SpotFields |-> Get(doc, f)],
     id |-> doc["id"],
     had_usage |-> Has(doc, "usage"),
     usage_value |-> IF Has(doc, "usage") THEN doc["usage"] ELSE NullUsage]

\* mutant: every selected document is sampled
SpotCheckSampleAll(docs) == [k \in 1..Len(docs) |-> Snapshot(docs[k])]

\* spot_check_sample = documents_to_update[:min(5, len(documents_to_update))]
SpotCheckSample(docs) ==
    LET sample == Take(docs, 5)
    IN  [k \in 1..Len(sample) |-> Snapshot(sample[k])]

\* run_update: filter, then the dry-run preview or the start of the mutation
RunFilter ==
    /\ pc = "filter"
    /\ LET selected == FilterDocuments(all_msg_documents, revert_mode)
       IN  /\ documents_to_update' = selected
           /\ IF selected = <<>> \/ dry_run
              THEN /\ Exit(0, IF selected = <<>> THEN "nothing" ELSE "dry_run",
                           Len(selected))
                   /\ UNCHANGED <<task, semaphore, spot_check_before>>
              ELSE /\ pc' = "mutate"
                   /\ spot_check_before' = SpotCheckSample(selected)
                   /\ task' = [k \in 1..Len(selected) |-> "pending"]
                   /\ semaphore' = concurrency
                   /\ UNCHANGED <<exit_code, cosmos_client, client_obj, runs>>
    /\ UNCHANGED <<store, started, params, discovery,
                   batch_start, updated_count, error_count, spot_check_passed, reread_failed,
                   writes>>

-----------------------------------------------------------------------------
(* Batched mutation *)

\* the document of all_msg_documents that was read with this id
ReadDoc(id) ==
    LET k == CHOOSE k \in 1..Len(all_msg_documents) : all_msg_documents[k]["id"] = id
    IN  all_msg_documents[k]

\* indices (1-based) of the documents of the current batch
CurrentBatch ==
    (batch_start + 1)..BatchEnd(batch_start, batch_size, Len(documents_to_update))

Failed == {k \in 1..Len(task) : task[k] = "fail"}

InFlight == {k \in 1..Len(task) : task[k] = "inflight"}

WriteRecord(k, ok) ==
    LET doc == documents_to_update[k]
    IN  [i |-> k, id |-> doc["id"], read |-> ReadDoc(doc["id"]),
         before |-> store[doc["id"]], doc |-> doc, ok |-> ok]

\* mutant: no limiter
AlwaysAcquire == TRUE

\* the semaphore admits the next task of the batch
CanAcquire == semaphore > 0

\* process_with_semaphore: the next waiting task acquires the semaphore and runs
\* update_single_document up to its await of container.upsert_item
StartTask ==
    /\ pc = "mutate"
    /\ CanAcquire
    /\ \E k \in CurrentBatch :
         /\ task[k] = "pending"
         /\ \A j \in CurrentBatch : j < k => task[j] # "pending"
         /\ documents_to_update' =
              [documents_to_update EXCEPT
                 ![k] = PatchOf(documents_to_update[k], revert_mode, utc_now)]
         /\ task' = [task EXCEPT ![k] = "inflight"]
    /\ semaphore' = semaphore - 1
    /\ UNCHANGED <<store, started, pc, cosmos_client,
                   client_obj, params, discovery, batch_start, updated_count,
                   error_count, spot_check_before, spot_check_passed, reread_failed, exit_code,
                   writes, runs>>

\* mutant: only a raised exception counts as an error
IsErrorOnlyExceptions(result) == result = "exception"

\* isinstance(result, Exception), or a falsy result
IsError(result) == result # "ok"

\* the result of one task: "ok" when the write succeeded, "fail" when it raised
\* (update_single_document catches the exception and returns False)
TaskResult(ok) == IF ok THEN "ok" ELSE "fail"

\* container.upsert_item returns or raises; the task releases the semaphore
CompleteTask(k, ok) ==
    /\ pc = "mutate"
    /\ k \in InFlight
    /\ ok \/ Cardinality(Failed) < MaxWriteFaults
    /\ store' = IF ok THEN Upsert(store, documents_to_update[k]) ELSE store
    /\ task' = [task EXCEPT ![k] = TaskResult(ok)]
    /\ semaphore' = semaphore + 1
    /\ writes' = Append(writes, WriteRecord(k, ok))
    /\ UNCHANGED <<started, pc, cosmos_client, client_obj,
                   params, discovery, documents_to_update, batch_start,
                   updated_count, error_count, spot_check_before,
                   spot_check_passed, reread_failed, exit_code, runs>>

\* mutant: the batch is dispatched but not awaited
BatchDispatched == \A k \in CurrentBatch : task[k] # "pending"

\* asyncio.gather has returned every result of the batch
BatchSettled == \A k \in CurrentBatch : task[k] \in {"ok", "fail"}

\* count the results, then start the next batch or return
EndBatch ==
    /\ pc = "mutate"
    /\ BatchSettled
    /\ updated_count' = updated_count + Cardinality({k \in CurrentBatch : task[k] = "ok"})
    /\ error_count' = error_count + Cardinality({k \in CurrentBatch : IsError(task[k])})
    /\ IF batch_start + batch_size \in BatchStarts(Len(documents_to_update), batch_size)
       THEN /\ batch_start' = batch_start + batch_size
            /\ semaphore' = concurrency
            /\ pc' = "mutate"
       ELSE /\ pc' = "spot_check"
            /\ UNCHANGED <<batch_start, semaphore>>
    /\ UNCHANGED <<store, started, cosmos_client,
                   client_obj, params, discovery, documents_to_update, task,
                   spot_check_before, spot_check_passed, reread_failed, exit_code, writes, runs>>


-----------------------------------------------------------------------------
(* Spot check and summary *)

UsageFields == {"completion_tokens", "prompt_tokens", "total_tokens"}

\* the verification of one sampled document against the re-read document
SpotCheckDoc(before, updated_doc, revert) ==
    /\ \A f \in SpotFields : before.fields[f] = Get(updated_doc, f)
    /\ IF revert
       THEN /\ ~Has(updated_doc, "usage")
            /\ Get(updated_doc, "updatedBy") = REVERTED
       ELSE /\ Has(updated_doc, "usage")
            /\ IF before.had_usage
               THEN \A f \in UsageFields :
                        before.usage_value[f] = updated_doc["usage"][f]
               ELSE updated_doc["usage"] = NullUsage
            /\ Get(updated_doc, "updatedBy") = UPDATED_BY

\* run_update SPOT CHECK VERIFICATION; retrieved = FALSE when a re-read raised
\* (line 400 of old.py holds two statements, the query text and items = [])
SpotCheck(retrieved) ==
    /\ pc = "spot_check"
    /\ spot_check_passed' =
         IF /\ retrieved
            /\ \A k \in 1..Len(spot_check_before) :
                 /\ spot_check_before[k].id \in DOMAIN store
                 /\ SpotCheckDoc(spot_check_before[k],
                                 store[spot_check_before[k].id], revert_mode)
         THEN "True"
         ELSE "False"
    /\ reread_failed' = ~retrieved
    /\ pc' = "summary"
    /\ UNCHANGED <<store, started, cosmos_client,
                   client_obj, params, discovery, documents_to_update, batch_start,
                   task, semaphore, updated_count, error_count, spot_check_before,
                   exit_code, writes, runs>>

\* run_update prints the summary and returns; main returns 0
PrintSummary ==
    /\ pc = "summary"
    /\ Exit(0, "done", Len(documents_to_update))
    /\ UNCHANGED <<store, started, params, discovery,
                   mutation>>

-----------------------------------------------------------------------------
(* update_usage.py and delete_usage.py *)

\* the next document of the sequential loop
NextIndex == CHOOSE k \in 1..Len(task) :
                 /\ task[k] = "pending"
                 /\ \A j \in 1..(k - 1) : task[j] # "pending"

\* update_usage.py main(): the client is constructed outside the try block
update_usage_main ==
    /\ pc = "idle"
    /\ Fresh("update_usage", FALSE, FALSE, "")
    /\ dry_run' = FALSE
    /\ cosmos_client' = "open"
    /\ client_obj' = "open"
    /\ pc' = "uu_query"
    /\ exit_code' = -1
    /\ UNCHANGED runs

\* update_usage.py: the query, its retry with page size 5, and the empty check
UpdateUsageQuery(outcome) ==
    /\ pc \in {"uu_query", "uu_retry"}
    /\ CASE outcome = "ok" ->
              LET documents == QueryMissingUsage(store)
              IN  /\ all_msg_documents' = documents
                  /\ documents_to_update' = documents
                  /\ task' = [k \in 1..Len(documents) |-> "pending"]
                  /\ IF documents = <<>>
                     THEN Exit(0, "nothing", 0)
                     ELSE /\ pc' = "uu_loop"
                          /\ UNCHANGED <<exit_code, cosmos_client, client_obj, runs>>
                  /\ UNCHANGED faults
         [] outcome = "header" /\ pc = "uu_query" ->
              /\ faults < MaxFaults
              /\ faults' = faults + 1
              /\ pc' = "uu_retry"
              /\ UNCHANGED <<all_msg_documents, documents_to_update, task,
                             exit_code, cosmos_client, client_obj, runs>>
         [] OTHER ->
              \* the outer except clause prints the error; finally closes
              /\ Exit(0, "discovery_failed", -1)
              /\ UNCHANGED <<all_msg_documents, documents_to_update, task, faults>>
    /\ UNCHANGED <<store, started, params, page_size,
                   offset, all_documents, skipped_offsets, discovery_error, batch_start,
                   semaphore, updated_count, error_count, spot_check_before,
                   spot_check_passed, reread_failed, writes>>

\* update_usage.py: one iteration of the update loop
UpdateUsageWrite(ok) ==
    /\ pc = "uu_loop"
    /\ ok \/ Cardinality(Failed) < MaxWriteFaults
    /\ LET k == NextIndex
           doc == ForwardPatch(documents_to_update[k], utc_now)
       IN  /\ documents_to_update' = [documents_to_update EXCEPT ![k] = doc]
           /\ store' = IF ok THEN Upsert(store, doc) ELSE store
           /\ task' = [task EXCEPT ![k] = TaskResult(ok)]
           /\ updated_count' = IF ok THEN updated_count + 1 ELSE updated_count
           /\ writes' = Append(writes,
                          [i |-> k, id |-> doc["id"], read |-> ReadDoc(doc["id"]),
                           before |-> store[doc["id"]], doc |-> doc, ok |-> ok])
           /\ pc' = IF k = Len(task) THEN "uu_done" ELSE "uu_loop"
    /\ UNCHANGED <<started, cosmos_client, client_obj,
                   params, discovery, batch_start, semaphore, error_count,
                   spot_check_before, spot_check_passed, reread_failed, exit_code, runs>>

\* update_usage.py: the loop is over; finally closes the client
UpdateUsageDone ==
    /\ pc = "uu_done"
    /\ Exit(0, "done", Len(documents_to_update))
    /\ UNCHANGED <<store, started, params, discovery,
                   mutation>>

\* delete_usage.py main(): the client is constructed outside the try block
delete_usage_main ==
    /\ pc = "idle"
    /\ Fresh("delete_usage", FALSE, FALSE, "")
    /\ dry_run' = FALSE
    /\ cosmos_client' = "open"
    /\ client_obj' = "open"
    /\ pc' = "du_query"
    /\ exit_code' = -1
    /\ UNCHANGED runs

\* delete_usage.py: the query; an error leaves through the finally clause
DeleteUsageQuery(ok) ==
    /\ pc = "du_query"
    /\ IF ok
       THEN LET documents == QueryHasUsage(store)
            IN  /\ all_msg_documents' = documents
                /\ documents_to_update' = documents
                /\ task' = [k \in 1..Len(documents) |-> "pending"]
                /\ pc' = IF documents = <<>> THEN "du_done" ELSE "du_loop"
                /\ UNCHANGED <<exit_code, cosmos_client, client_obj, runs>>
       ELSE /\ Exit(1, "discovery_failed", -1)
            /\ UNCHANGED <<all_msg_documents, documents_to_update, task>>
    /\ UNCHANGED <<store, started, params, page_size,
                   offset, all_documents, faults, skipped_offsets, discovery_error,
                   batch_start, semaphore, updated_count, error_count,
                   spot_check_before, spot_check_passed, reread_failed, writes>>

\* delete_usage.py: one iteration of the delete loop
DeleteUsageWrite(ok) ==
    /\ pc = "du_loop"
    /\ ok \/ Cardinality(Failed) < MaxWriteFaults
    /\ LET k == NextIndex
           doc == DeletePatch(documents_to_update[k])
       IN  /\ documents_to_update' = [documents_to_update EXCEPT ![k] = doc]
           /\ store' = IF ok THEN Upsert(store, doc) ELSE store
           /\ task' = [task EXCEPT ![k] = TaskResult(ok)]
           /\ updated_count' = IF ok THEN updated_count + 1 ELSE updated_count
           /\ writes' = Append(writes,
                          [i |-> k, id |-> doc["id"], read |-> ReadDoc(doc["id"]),
                           before |-> store[doc["id"]], doc |-> doc, ok |-> ok])
           /\ pc' = IF k = Len(task) THEN "du_done" ELSE "du_loop"
    /\ UNCHANGED <<started, cosmos_client, client_obj,
                   params, discovery, batch_start, semaphore, error_count,
                   spot_check_before, spot_check_passed, reread_failed, exit_code, runs>>

\* delete_usage.py: the loop is over; finally closes the client
DeleteUsageDone ==
    /\ pc = "du_done"
    /\ Exit(0, "done", Len(documents_to_update))
    /\ UNCHANGED <<store, started, params, discovery,
                   mutation>>

-----------------------------------------------------------------------------
(* Specifications *)

Outcomes == {"ok", "header", "other"}

\* answers to "Are you sure you want to proceed? (y/N)"
Responses == {"y", "n", ""}

Discover ==
    \/ \E outcome \in Outcomes : BulkQuery(outcome)
    \/ \E outcome \in Outcomes : PageFetch(outcome)
    \/ PaginationReturned
    \/ FatalError

Mutate ==
    \/ StartTask
    \/ \E k \in 1..Len(task), ok \in BOOLEAN : CompleteTask(k, ok)
    \/ EndBatch

\* input() is called only when an execute flag is given
Answers(execute) == IF execute THEN Responses ELSE {""}

\* the help flag and the environment are looked at before the other flags
Start ==
    \/ main(TRUE, TRUE, FALSE, FALSE, "")
    \/ main(FALSE, FALSE, FALSE, FALSE, "")
    \/ \E revert, execute \in BOOLEAN :
         \E response \in Answers(execute) :
            main(FALSE, TRUE, revert, execute, response)
    \/ update_usage_main
    \/ delete_usage_main

OldSteps ==
    \/ \E ok \in BOOLEAN : create_cosmos_client(ok)
    \/ Discover
    \/ RunFilter
    \/ Mutate
    \/ \E retrieved \in BOOLEAN : SpotCheck(retrieved)
    \/ PrintSummary

SimpleSteps ==
    \/ \E outcome \in Outcomes : UpdateUsageQuery(outcome)
    \/ \E ok \in BOOLEAN : UpdateUsageWrite(ok)
    \/ UpdateUsageDone
    \/ \E ok \in BOOLEAN : DeleteUsageQuery(ok)
    \/ \E ok \in BOOLEAN : DeleteUsageWrite(ok)
    \/ DeleteUsageDone

Next ==
    \/ run = 0 /\ Start
    \/ OldSteps
    \/ SimpleSteps

\* one invocation of any of the scripts on a small store; the initial stores
\* hold documents as earlier forward and reverse runs leave them
Spec == Init /\ [][Next]_vars

\* two invocations of old.py in a row, each with an execute flag and answered 'y'
NextTwice ==
    \/ run < 2 /\ \E revert \in BOOLEAN : main(FALSE, TRUE, revert, TRUE, "y")
    \/ OldSteps

SpecTwice == Init /\ [][NextTwice]_vars

\* a store of n documents: every tenth is a user message, every third of the
\* others was migrated before
LargeStore(n) ==
    [i \in 1..n |-> IF i % 10 = 0 THEN UserDoc(i)
                    ELSE IF i % 3 = 0 THEN MigratedDoc(i)
                    ELSE FreshDoc(i)]

\* run_update has just been called on an open container
InRunUpdate(revert, execute) ==
    /\ run = 1
    /\ script = "old"
    /\ revert_mode = revert
    /\ dry_run = DryRun(execute)
    /\ cosmos_client = "open"
    /\ client_obj = "open"
    /\ exit_code = -1

InitPaging ==
    /\ \E n \in 0..MaxStore : store = LargeStore(n)
    /\ batch_size = DefaultBatchSize
    /\ concurrency = DefaultConcurrency
    /\ InRunUpdate(FALSE, FALSE)
    /\ pc = "bulk_query"
    /\ InitLocals

\* discovery alone, on stores large enough for full pages
SpecPaging == InitPaging /\ [][Discover]_vars

\* the loop of the fallback pagination always takes its next step
SpecPagingFair == SpecPaging /\ WF_vars(Discover)

InitOutage ==
    /\ \E n \in 0..MaxOutageStore : store = LargeStore(n)
    /\ batch_size = DefaultBatchSize
    /\ concurrency = DefaultConcurrency
    /\ InRunUpdate(FALSE, FALSE)
    /\ pc = "bulk_query"
    /\ InitLocals

NextOutage ==
    \/ \E outcome \in Outcomes : BulkQuery(outcome)
    \/ \E outcome \in {"ok", "other"} : PageFetch(outcome)
    \/ PageFetchFailing
    \/ PaginationReturned
    \/ FatalError

\* discovery when the transport-limit failure may recur at every request
SpecOutage == InitOutage /\ [][NextOutage]_vars /\ WF_vars(NextOutage)

\* run_update has just been called in execute mode on a store of n documents
InitVerify ==
    /\ \E n \in 1..MaxVerifyDocs, revert \in BOOLEAN :
         /\ store = LargeStore(n)
         /\ InRunUpdate(revert, TRUE)
         /\ invocation = [execute |-> TRUE, response |-> "y", before |-> store]
    /\ batch_size = DefaultBatchSize
    /\ concurrency = DefaultConcurrency
    /\ pc = "bulk_query"
    /\ all_msg_documents = <<>>
    /\ page_size = InitialPageSize
    /\ offset = 0
    /\ all_documents = <<>>
    /\ documents_to_update = <<>>
    /\ batch_start = 0
    /\ task = NoTasks
    /\ semaphore = 0
    /\ updated_count = 0
    /\ error_count = 0
    /\ spot_check_before = <<>>
    /\ spot_check_passed = "None"
    /\ reread_failed = FALSE
    /\ faults = 0
    /\ skipped_offsets = {}
    /\ discovery_error = "none"
    /\ writes = <<>>
    /\ runs = <<>>

NextVerify ==
    \/ BulkQuery("ok")
    \/ RunFilter
    \/ Mutate
    \/ \E retrieved \in BOOLEAN : SpotCheck(retrieved)
    \/ PrintSummary

\* decision, mutation with the default batch size and concurrency, spot check
\* and summary, on stores with more than five documents to migrate
SpecVerify == InitVerify /\ [][NextVerify]_vars

\* process_in_batches has just been called by run_update with n selected documents
InitBatch ==
    /\ \E n \in 1..MaxBatchDocs, revert \in BOOLEAN :
         /\ store = [i \in 1..n |-> IF revert THEN MigratedDoc(i) ELSE FreshDoc(i)]
         /\ InRunUpdate(revert, TRUE)
    /\ batch_size \in 1..MaxBatchSize
    /\ concurrency \in 1..MaxConcurrency
    /\ pc = "mutate"
    /\ all_msg_documents = QueryMessages(store)
    /\ page_size = InitialPageSize
    /\ offset = 0
    /\ all_documents = <<>>
    /\ documents_to_update = FilterDocuments(all_msg_documents, revert_mode)
    /\ batch_start = 0
    /\ task = [k \in 1..Len(documents_to_update) |-> "pending"]
    /\ semaphore = concurrency
    /\ updated_count = 0
    /\ error_count = 0
    /\ spot_check_before = SpotCheckSample(documents_to_update)
    /\ spot_check_passed = "None"
    /\ reread_failed = FALSE
    /\ faults = 0
    /\ skipped_offsets = {}
    /\ discovery_error = "none"
    /\ invocation = [execute |-> TRUE, response |-> "y", before |-> store]
    /\ writes = <<>>
    /\ runs = <<>>

\* the batched mutation alone, with small batch sizes and concurrency limits
SpecBatch == InitBatch /\ [][Mutate]_vars


-----------------------------------------------------------------------------
(* Properties *)

\* the fields a mutation may change
Provenance == {"usage", "updatedAt", "updatedBy"}

\* every field outside usage, updatedAt, updatedBy is present in both documents
\* with the same value
Preserved(a, b) ==
    \A f \in (DOMAIN a \cup DOMAIN b) \ Provenance :
        f \in DOMAIN a /\ f \in DOMAIN b /\ a[f] = b[f]

Finished == 1..Len(runs)

\* C1: every document a script writes back (forward or reverse patch, write
\* succeeding or not, in flight or completed) equals the document read during
\* discovery on every field other than usage, updatedAt and updatedBy.
C1_Preservation ==
    /\ \A n \in 1..Len(writes) : Preserved(writes[n].read, writes[n].doc)
    /\ \A k \in InFlight :
         Preserved(ReadDoc(documents_to_update[k]["id"]), documents_to_update[k])
    /\ \A r \in Finished : \A w \in runs[r].writes : Preserved(w.read, w.doc)

\* a forward write of old.py took effect on a document that had no usage field
C1_Witness ==
    /\ script = "old"
    /\ ~revert_mode
    /\ \E n \in 1..Len(writes) :
         /\ writes[n].ok
         /\ ~Has(writes[n].read, "usage")
         /\ store[writes[n].id] = writes[n].doc
         /\ Has(writes[n].doc, "usage")
         /\ Has(writes[n].doc, "content")

\* the invocation in progress is a reverse migration
ReverseRun == (script = "old" /\ revert_mode) \/ script = "delete_usage"

\* C2: a reverse migration (old.py --revert, delete_usage.py) upserts only
\* documents whose stored updatedBy equals the run identifier.
C2_AttributionScoping ==
    ReverseRun =>
        \A n \in 1..Len(writes) : Get(writes[n].before, "updatedBy") = UPDATED_BY

\* the same statement for old.py's revert alone
C2_OldRevertScoped ==
    (script = "old" /\ revert_mode) =>
        \A n \in 1..Len(writes) : Get(writes[n].before, "updatedBy") = UPDATED_BY

\* invocation r of old.py ran in execute mode: it was confirmed, it connected and
\* its discovery raised no non-transport error
Ran(r) ==
    /\ runs[r].script = "old"
    /\ runs[r].execute
    /\ runs[r].response = "y"
    /\ runs[r].phase # "connect"
    /\ runs[r].discovery_error = "none"

AllWritesOk(r) == \A w \in runs[r].writes : w.ok

TwoForwardRuns ==
    /\ pc = "idle"
    /\ Len(runs) = 2
    /\ \A r \in {1, 2} : Ran(r) /\ ~runs[r].revert /\ AllWritesOk(r)

SecondRunIdle ==
    /\ runs[2].selected <= 0
    /\ runs[2].writes = {}
    /\ runs[2].after = runs[1].after

\* C3 as stated: two forward execute runs in a row, every write succeeding, end
\* in the store the first run left; the second selects nothing and writes nothing.
C3_IdempotenceAsClaimed == TwoForwardRuns => SecondRunIdle

\* C3 amended: the same, provided the first run's discovery skipped no offset range.
C3_Idempotence == (TwoForwardRuns /\ ~runs[1].skipped) => SecondRunIdle

\* the first run migrated documents and the second found nothing to do
C3_Witness ==
    /\ TwoForwardRuns
    /\ ~runs[1].skipped
    /\ runs[1].writes # {}
    /\ runs[2].phase = "nothing"
    /\ runs[2].selected = 0

ForwardThenReverse ==
    /\ pc = "idle"
    /\ Len(runs) = 2
    /\ \A r \in {1, 2} : Ran(r) /\ AllWritesOk(r)
    /\ ~runs[1].revert
    /\ runs[2].revert

RoundTripped ==
    \A w \in runs[1].writes :
        LET d == runs[2].after[w.id]
        IN  /\ ~Has(d, "usage")
            /\ Get(d, "updatedBy") = REVERTED
            /\ Preserved(w.before, d)

\* C4 as stated: after a forward and then a reverse execute run, every write
\* succeeding, each document the forward run wrote has no usage field, carries
\* the revert sentinel and its other fields as before the forward run.
C4_RoundTripAsClaimed == ForwardThenReverse => RoundTripped

\* C4 amended: the same, provided the reverse run's discovery skipped no offset range.
C4_RoundTrip == (ForwardThenReverse /\ ~runs[2].skipped) => RoundTripped

\* the forward run wrote documents and the reverse run wrote them back
C4_Witness ==
    /\ ForwardThenReverse
    /\ ~runs[2].skipped
    /\ runs[1].writes # {}
    /\ {w.id : w \in runs[1].writes} \subseteq {w.id : w \in runs[2].writes}

\* C5: when discovery returns without having skipped an offset range and without
\* a non-transport error, it returns exactly the matching documents in id order,
\* each once, whatever the page sizes at which transport-limit failures struck.
C5_PaginationComplete ==
    (skipped_offsets = {} /\ discovery_error = "none") =>
        /\ pc = "paginated" => all_documents = QueryMessages(store)
        /\ pc = "filter" => all_msg_documents = QueryMessages(store)

\* the pagination shrank to 125 documents a page and returned more than two pages
C5_Witness ==
    /\ pc = "paginated"
    /\ skipped_offsets = {}
    /\ discovery_error = "none"
    /\ page_size < InitialPageSize
    /\ page_size > MinPageSize
    /\ Len(all_documents) > 2 * page_size
    /\ Len(all_documents) < Cardinality(DOMAIN store)

\* the invocation was started with an execute flag and answered 'y'
Confirmed(inv) == inv.execute /\ inv.response = "y"

\* C6: unless old.py was started with an execute flag and the confirmation was
\* answered 'y', no upsert is issued and the store stays as it was at the start.
C6_NoWriteWithoutConfirmation ==
    /\ (script = "old" /\ ~Confirmed(invocation)) =>
           /\ store = invocation.before
           /\ writes = <<>>
           /\ InFlight = {}
    /\ \A r \in Finished :
           (runs[r].script = "old" /\ ~Confirmed(runs[r])) =>
               runs[r].writes = {} /\ runs[r].after = runs[r].before

\* a dry run found documents to migrate and ended
C6_Witness ==
    /\ pc = "idle"
    /\ Len(runs) > 0
    /\ runs[Len(runs)].script = "old"
    /\ runs[Len(runs)].phase = "dry_run"
    /\ runs[Len(runs)].selected > 0
    /\ store = runs[Len(runs)].before

\* the number of completed upsert attempts for document k of documents_to_update
Attempts(k) == Cardinality({n \in 1..Len(writes) : writes[n].i = k})

\* C7: no document gets a second write attempt; when process_in_batches returns
\* every document got exactly one and updated_count + error_count is their number;
\* 120 documents in batches of 50 are sliced as 50, 50, 20.
C7_EveryDocumentAttemptedOnce ==
    /\ \A k \in 1..Len(task) : Attempts(k) <= 1
    /\ pc = "spot_check" =>
         /\ \A k \in 1..Len(documents_to_update) : Attempts(k) = 1
         /\ updated_count + error_count = Len(documents_to_update)
    /\ [s \in BatchStarts(120, DefaultBatchSize) |->
            BatchEnd(s, DefaultBatchSize, 120) - s]
         = (0 :> 50 @@ 50 :> 50 @@ 100 :> 20)

\* several batches; a write failed in the first batch and later writes succeeded
C7_Witness ==
    /\ pc = "spot_check"
    /\ Len(documents_to_update) > 2 * batch_size
    /\ \E k \in Failed : k <= batch_size
    /\ \E k \in 1..Len(task) : k > batch_size /\ task[k] = "ok"
    /\ error_count > 0
    /\ updated_count > 0

\* C8: the writes in flight never exceed the concurrency limit.
C8_BoundedInFlight ==
    /\ Cardinality(InFlight) <= concurrency
    /\ semaphore >= 0

\* the limiter is full while a task of the batch still waits
C8_Witness ==
    /\ pc = "mutate"
    /\ concurrency > 1
    /\ Cardinality(InFlight) = concurrency
    /\ \E k \in CurrentBatch : task[k] = "pending"

\* the batch (counted from 0) of document k
BatchOf(k) == (k - 1) \div batch_size

\* C9: a write of a later batch has started only if every write of every
\* earlier batch has settled.
C9_BatchesDoNotOverlap ==
    \A j, k \in 1..Len(task) :
        (BatchOf(j) < BatchOf(k) /\ task[k] # "pending") => task[j] \in {"ok", "fail"}

\* in the second batch a later write settled while an earlier one is in flight
C9_Witness ==
    /\ pc = "mutate"
    /\ \E j, k \in CurrentBatch :
         /\ BatchOf(j) >= 1
         /\ j < k
         /\ task[j] = "inflight"
         /\ task[k] \in {"ok", "fail"}

\* C10: an invocation of old.py whose discovery raised a non-transport error, in
\* the bulk query or in a page fetch, wrote nothing and ended with exit code 1.
C10_DiscoveryErrorIsFatal ==
    \A r \in Finished :
        (runs[r].script = "old" /\ runs[r].discovery_error # "none") =>
            runs[r].writes = {} /\ runs[r].exit_code = 1

\* the same statement for an error of the bulk query alone
C10_BulkErrorIsFatal ==
    \A r \in Finished :
        (runs[r].script = "old" /\ runs[r].discovery_error = "bulk") =>
            runs[r].writes = {} /\ runs[r].exit_code = 1

\* C11: every finished invocation on which a CosmosClient object was constructed
\* has closed it by the time the entry point returned.
C11_ClientClosedOnEveryExit ==
    /\ \A r \in Finished : runs[r].client # "None" => runs[r].client = "closed"
    /\ (pc = "idle" /\ client_obj # "None") => client_obj = "closed"

\* the same statement for the invocations whose connection validation succeeded
C11_ClosedOnceConnected ==
    \A r \in Finished :
        (runs[r].client # "None" /\ runs[r].phase # "connect") =>
            runs[r].client = "closed"

\* forward criterion of the decision step: the document lacks the usage field
LacksUsage(doc) == "usage" \notin DOMAIN doc

\* reverse criterion: the document has usage and was stamped by this migration
OwnUsage(doc) ==
    /\ "usage" \in DOMAIN doc
    /\ "updatedBy" \in DOMAIN doc
    /\ doc["updatedBy"] = UPDATED_BY

ToMigrate(docs, revert) ==
    LET Test(doc) == IF revert THEN OwnUsage(doc) ELSE LacksUsage(doc)
    IN  SelectSeq(docs, Test)

NotToMigrate(docs, revert) ==
    LET Test(doc) == ~(IF revert THEN OwnUsage(doc) ELSE LacksUsage(doc))
    IN  SelectSeq(docs, Test)

\* old.py has just decided: the run ended at the decision (nothing to do, or the
\* dry-run preview), or the mutation is about to start
Decided ==
    /\ script = "old"
    /\ \/ /\ pc = "idle"
          /\ Len(runs) > 0
          /\ runs[Len(runs)].phase \in {"nothing", "dry_run"}
       \/ /\ pc = "mutate"
          /\ \A k \in 1..Len(task) : task[k] = "pending"

\* twelve assistant messages of which seven lack the usage field
TwelveDocs == [i \in 1..12 |-> IF i <= 7 THEN FreshDoc(i) ELSE MigratedDoc(i)]

Partitioned ==
    /\ Decided =>
         /\ documents_to_update = ToMigrate(all_msg_documents, revert_mode)
         /\ SkippedCount(all_msg_documents, documents_to_update)
              = Len(NotToMigrate(all_msg_documents, revert_mode))
    /\ Len(FilterDocuments(TwelveDocs, FALSE)) = 7
    /\ SkippedCount(TwelveDocs, FilterDocuments(TwelveDocs, FALSE)) = 5

DecisionIsPure ==
    pc = "filter" =>
        /\ store' = store
        /\ all_msg_documents' = all_msg_documents
        /\ writes' = writes

\* C12: after the decision step documents_to_update is exactly the discovered
\* documents lacking usage (forward) or having usage with updatedBy equal to the
\* run identifier (reverse), in discovery order; the skipped count is the number
\* of the other discovered documents; the step changes neither the store nor the
\* discovered documents and issues no write.
C12_DecisionPartitions == []Partitioned /\ [][DecisionIsPure]_vars

\* a reverse dry run that selected one of two discovered documents
C12_Witness ==
    /\ Decided
    /\ revert_mode
    /\ pc = "idle"
    /\ Len(all_msg_documents) = 2
    /\ Len(documents_to_update) = 1
    /\ SkippedCount(all_msg_documents, documents_to_update) = 1
    /\ Has(all_msg_documents[1], "usage")
    /\ Has(all_msg_documents[2], "usage")

\* discovery has returned to run_update or raised
Returned == pc \notin {"bulk_query", "paginate"}

PageSizes == {InitialPageSize, 500, 250, 125, MinPageSize}

\* C13: the page size is only ever halved down to the floor of 100, and the
\* fallback discovery eventually returns, whatever the pattern of transport-limit
\* failures, also when the failure recurs at every offset.
C13_FallbackTerminates == [](page_size \in PageSizes) /\ <>Returned

\* the page size stays among the halvings of 1000 down to the floor
C13_PageSizeNeverBelowFloor == page_size \in PageSizes

\* discovery returns when the transport-limit failures are finitely many
C13_ReturnsWhenFailuresCease == <>Returned

\* ids of the assistant messages of store s that lack the usage field
Pending(s) == {i \in DOMAIN s : IsAssistantMessage(s[i]) /\ ~Has(s[i], "usage")}

\* two forward execute runs in a row, some write of the first having failed
PartialThenRerun ==
    /\ pc = "idle"
    /\ Len(runs) = 2
    /\ \A r \in {1, 2} : Ran(r) /\ ~runs[r].revert
    /\ \E w \in runs[1].writes : ~w.ok

\* the re-run selects and attempts exactly the documents still lacking usage,
\* those whose write failed among them, and rewrites no migrated document; when
\* its writes all succeed every matching document has usage and a further run
\* would select nothing
Converges ==
    /\ {w.id : w \in {x \in runs[1].writes : ~x.ok}} \subseteq Pending(runs[1].after)
    /\ runs[2].selected = Cardinality(Pending(runs[1].after))
    /\ {w.id : w \in runs[2].writes} = Pending(runs[1].after)
    /\ \A w \in runs[2].writes : ~Has(w.before, "usage")
    /\ AllWritesOk(2) =>
         /\ Pending(runs[2].after) = {}
         /\ FilterDocuments(QueryMessages(runs[2].after), FALSE) = <<>>

OutsideSkipped(n) ==
    {p \in 1..n : \A o \in skipped_offsets : ~(o < p /\ p <= o + MinPageSize)}

\* C15: when the fallback discovery returns, having skipped the ranges that start
\* at the offsets where a transport-limit failure struck at the floor page size,
\* the returned list is the id-ordered matching documents without exactly the
\* positions [o, o + 100) of each skipped offset o: in id order, no duplicate,
\* every document outside the skipped ranges present.
C15_SkipsExactlyOnePage ==
    (pc = "paginated" /\ discovery_error = "none") =>
        LET matching == QueryMessages(store)
            kept == OutsideSkipped(Len(matching))
        IN  /\ Len(all_documents) = Cardinality(kept)
            /\ \A k \in 1..(Len(all_documents) - 1) :
                   all_documents[k]["id"] < all_documents[k + 1]["id"]
            /\ {all_documents[k] : k \in 1..Len(all_documents)}
                 = {matching[p] : p \in kept}

\* one failure at offset 100 at the floor: the first page and the pages from
\* offset 200 on were returned
C15_Witness ==
    /\ pc = "paginated"
    /\ discovery_error = "none"
    /\ page_size = MinPageSize
    /\ skipped_offsets = {100}
    /\ Len(all_documents) > 3 * MinPageSize
    /\ Len(all_documents) = Len(QueryMessages(store)) - MinPageSize

\* the documents the decision step selected, as they were read
Selected == ToMigrate(all_msg_documents, revert_mode)

\* the sample is the first min(5, n) selected documents as they were before the
\* mutation
SampledBeforeMutation ==
    pc \in {"mutate", "spot_check", "summary"} =>
        /\ Len(spot_check_before) = Min(5, Len(Selected))
        /\ \A k \in 1..Len(spot_check_before) :
               /\ spot_check_before[k].id = Selected[k]["id"]
               /\ spot_check_before[k].had_usage = ("usage" \in DOMAIN Selected[k])
               /\ \A f \in SpotFields \cap DOMAIN Selected[k] :
                      spot_check_before[k].fields[f] = Selected[k][f]

\* the verification has run after a forward mutation whose writes all succeeded
VerifiedForward ==
    /\ pc = "summary"
    /\ ~revert_mode
    /\ \A n \in 1..Len(writes) : writes[n].ok

\* a run that reached its summary ended with exit code 0, whatever the spot check
ExitCodeKept ==
    \A r \in Finished : runs[r].phase = "done" => runs[r].exit_code = 0

\* the verification writes nothing and undoes nothing
Observational ==
    pc = "spot_check" =>
        /\ store' = store
        /\ writes' = writes
        /\ documents_to_update' = documents_to_update

\* C16 as stated: the sample is the first min(5, n) documents of to_migrate as
\* before the mutation; the verification changes nothing; after a forward
\* execute whose writes all succeeded the spot check passes; the exit code of a
\* run that reached its summary is 0 whether the spot check passed or failed.
C16_SpotCheckAsClaimed ==
    /\ [](SampledBeforeMutation /\ ExitCodeKept)
    /\ [](VerifiedForward => spot_check_passed = "True")
    /\ [][Observational]_vars

\* C16 amended: the same, the spot check passing provided no re-read of a
\* sampled document raised.
C16_SpotCheck ==
    /\ [](SampledBeforeMutation /\ ExitCodeKept)
    /\ []((VerifiedForward /\ ~reread_failed) => spot_check_passed = "True")
    /\ [][Observational]_vars

\* six documents were migrated, five of them sampled, and the spot check passed
C16_Witness ==
    /\ pc = "idle"
    /\ Len(runs) = 1
    /\ runs[1].phase = "done"
    /\ ~runs[1].revert
    /\ runs[1].selected > 5
    /\ Len(spot_check_before) = 5
    /\ AllWritesOk(1)
    /\ runs[1].spot_check = "True"
    /\ runs[1].exit_code = 0

\* a write failed, the spot check failed, and the run still ended with exit code 0
C16_FailedCheckWitness ==
    /\ pc = "idle"
    /\ Len(runs) = 1
    /\ runs[1].phase = "done"
    /\ ~runs[1].reread_failed
    /\ runs[1].spot_check = "False"
    /\ runs[1].exit_code = 0
    /\ runs[1].after # runs[1].before

=============================================================================
